---------------------------- MODULE Spec2Model ----------------------------
(***************************************************************************)
(* Model of apitest.py: a demo client that performs one REST read, then    *)
(* runs a WebSocket subscription client on a daemon thread.  The client    *)
(* subscribes with the node ids loaded from a tag JSON file and reconnects *)
(* after a fixed delay.                                                    *)
(*                                                                         *)
(* Python/JSON values are tagged records [t, v]:                           *)
(*   null/None, str, num, list (v is a sequence), dict (v is a function    *)
(*   from key strings to values).                                          *)
(***************************************************************************)
EXTENDS Integers, Sequences, FiniteSets, TLC

VARIABLES
    tagFile,    \* the file at TAG_JSON_PATH: [exists, content]
    node_ids,   \* outcome of the last load_tags_from_json call
    mainPc,     \* position of the main thread
    posts,      \* number of HTTP POST attempts made so far
    stdout,     \* kind of the last line printed
    workerPc,   \* position of the thread running run_websocket
    elapsed,    \* time units slept since run_forever last returned
    sent,       \* frames sent on the current WebSocketApp
    opens,      \* number of successful opens so far
    fileReads,  \* number of times the tag file was opened and read
    failures,   \* consecutive connections that ended without an open
    frames,     \* inbound text frames handled on the current connection
    process     \* "running", "terminated" or "hung"

vars == <<tagFile, node_ids, mainPc, posts, stdout, workerPc, elapsed, sent,
          opens, fileReads, failures, frames, process>>

-----------------------------------------------------------------------------
(* Bounds *)
MaxNodes == 3
MaxOpens == 2
MaxFailures == 3
MaxFrames == 2

(* Program constants *)
RECONNECT_DELAY == 5

-----------------------------------------------------------------------------
(* Python / JSON values *)

None == [t |-> "null", v |-> "None"]
Str(s) == [t |-> "str", v |-> s]
Num(n) == [t |-> "num", v |-> n]
PyList(s) == [t |-> "list", v |-> s]
PyDict(f) == [t |-> "dict", v |-> f]

EmptyList == PyList(<< >>)

\* Python truthiness, as used by `if x`, `not x` and `x or y`.
Truthy(x) ==
    CASE x.t = "null" -> FALSE
      [] x.t = "str"  -> x.v # ""
      [] x.t = "num"  -> x.v # 0
      [] x.t = "list" -> Len(x.v) > 0
      [] x.t = "dict" -> DOMAIN x.v # {}

\* dict.get(key): the value, or None when the key is absent.
Get(d, key) == IF key \in DOMAIN d.v THEN d.v[key] ELSE None

\* x or y
Or(x, y) == IF Truthy(x) THEN x ELSE y

\* Text on disk or on the wire: well-formed JSON text of a value, or garbage.
json_dumps(j) == [wf |-> TRUE, j |-> j]
Garbage == [wf |-> FALSE, j |-> None]

Return(x) == [kind |-> "return", val |-> x]
Raise(e) == [kind |-> "raise", val |-> Str(e)]

\* json.load / json.loads
json_loads(text) == IF text.wf THEN Return(text.j) ELSE Raise("JSONDecodeError")

-----------------------------------------------------------------------------
(* Tag Loader *)

RECURSIVE extract_variable_nodeids(_, _)
RECURSIVE ExtractEach(_, _, _)

\* the `for x in xs: extract_variable_nodeids(x, result)` loops
ExtractEach(xs, i, result) ==
    IF i > Len(xs) THEN result
    ELSE ExtractEach(xs, i + 1, extract_variable_nodeids(xs[i], result))

extract_variable_nodeids(node, result0) ==
    LET result == IF result0 = None THEN EmptyList ELSE result0 IN
    IF node.t = "dict" THEN
        LET r1 == IF /\ Get(node, "nodeClass") = Str("NodeClassVariable")
                     /\ "nodeId" \in DOMAIN node.v
                  THEN PyList(Append(result.v, node.v["nodeId"]))
                  ELSE result
            children == Get(node, "children")
        IN  IF children.t = "list" THEN ExtractEach(children.v, 1, r1) ELSE r1
    ELSE IF node.t = "list" THEN ExtractEach(node.v, 1, result)
    ELSE result

\* data.get("tags") or data.get("node_ids") or []
FlatKeys(data) == Or(Or(Get(data, "tags"), Get(data, "node_ids")), EmptyList)

\* a loader that treats an unreadable file like a missing one
OnParseErrorSwallowed(e) == [kind |-> "return", val |-> [t |-> "list", v |-> << >>]]

\* what `json.load(f)` failing does to the call: the exception propagates
OnParseError(e) == e

load_tags_from_json(file) ==
    IF ~file.exists THEN Return(EmptyList)
    ELSE LET parsed == json_loads(file.content) IN
         IF parsed.kind = "raise" THEN OnParseError(parsed)
         ELSE LET data == parsed.val
                  ids == extract_variable_nodeids(data, None)
              IN  IF Truthy(ids) THEN Return(ids)
                  ELSE IF data.t = "list" THEN Return(data)
                  ELSE IF data.t = "dict" THEN Return(FlatKeys(data))
                  ELSE Return(EmptyList)


-----------------------------------------------------------------------------
(* Tag files considered *)

Classes == {"NodeClassVariable", "NodeClassObject"}
Ids == {"a", "b"}

\* a NodeDescriptor; `children` is present only when there are any
Node(cls, id, kids) ==
    PyDict(IF kids = << >>
           THEN [nodeClass |-> Str(cls), nodeId |-> Str(id)]
           ELSE [nodeClass |-> Str(cls), nodeId |-> Str(id),
                 children |-> PyList(kids)])

RECURSIVE Size(_)
\* number of descriptors in a sequence of descriptors
Size(f) ==
    IF f = << >> THEN 0
    ELSE LET kids == Get(Head(f), "children") IN
         1 + (IF kids.t = "list" THEN Size(kids.v) ELSE 0) + Size(Tail(f))

RECURSIVE Forests(_)
\* the sequences of descriptors holding at most n descriptors in all
Forests(n) ==
    IF n = 0 THEN {<< >>}
    ELSE LET F == Forests(n - 1) IN
         {<< >>} \cup
         UNION { UNION { { <<Node(c, i, k)>> \o r : c \in Classes, i \in Ids }
                         : r \in { r \in F : Size(k) + Size(r) <= n - 1 } }
                 : k \in F }

AllForests == Forests(MaxNodes)

\* tree files: a sequence of descriptors, or one descriptor
TreeValues ==
    { PyList(f) : f \in AllForests } \cup { f[1] : f \in { g \in AllForests : Len(g) = 1 } }

FlatLists == { PyList(s) : s \in {<< >>, <<Str("x")>>, <<Str("x"), Str("y")>>,
                                   <<Str("y"), Str("x")>>} }

\* values a flat mapping may hold under `tags` / `node_ids`
FlatVals == FlatLists \cup {Str(""), Str("x"), Num(0), None}

Absent == [t |-> "absent", v |-> "absent"]

FlatDict(tags, ids) ==
    PyDict((IF tags = Absent THEN << >> ELSE [tags |-> tags]) @@
           (IF ids = Absent THEN << >> ELSE [node_ids |-> ids]))

FlatDicts == { FlatDict(x, y) : x \in FlatVals \cup {Absent}, y \in FlatVals \cup {Absent} }

\* a descriptor that also carries `tags` / `node_ids`
MixedDicts ==
    { PyDict(d.v @@ m.v) :
        d \in { f[1] : f \in { g \in Forests(MaxNodes - 1) : Len(g) = 1 } },
        m \in FlatDicts }

Scalars == {Str("a"), Num(0), None}

JsonValues == TreeValues \cup FlatLists \cup FlatDicts \cup MixedDicts \cup Scalars

MissingFile == [exists |-> FALSE, content |-> Garbage]
MalformedFile == [exists |-> TRUE, content |-> Garbage]
FileOf(j) == [exists |-> TRUE, content |-> json_dumps(j)]

LoaderFiles == {MissingFile, MalformedFile} \cup { FileOf(j) : j \in JsonValues }

NotLoaded == [kind |-> "pending", val |-> None]

\* tag files the running client is exercised with
DemoFiles ==
    { MissingFile, MalformedFile,
      FileOf(EmptyList),
      FileOf(PyList(<<Node("NodeClassObject", "a", << >>)>>)),
      FileOf(PyList(<<Node("NodeClassVariable", "a", << >>),
                      Node("NodeClassObject", "b",
                           <<Node("NodeClassVariable", "b", << >>)>>)>>)),
      FileOf(FlatDict(PyList(<<Str("x")>>), Absent)) }

-----------------------------------------------------------------------------
(* REST Client *)

\* what requests.post(..., timeout=3) can do
NetOutcomes ==
    { Raise("Timeout"), Raise("ConnectionError"),
      Return(Garbage), Return(json_dumps(PyDict([value |-> Num(1)]))) }

\* try: post; print(response.json())  except Exception: print(failed)
RestCall(net, okLine, failLine) ==
    IF net.kind = "raise"
    THEN [posts |-> 1, print |-> failLine, raised |-> FALSE]
    ELSE IF json_loads(net.val).kind = "raise"
         THEN [posts |-> 1, print |-> failLine, raised |-> FALSE]
         ELSE [posts |-> 1, print |-> okLine, raised |-> FALSE]

\* a read_node whose handler only covers the request itself
read_node_narrow(net) ==
    IF net.kind = "raise"
    THEN [posts |-> 1, print |-> "Read node failed", raised |-> FALSE]
    ELSE IF json_loads(net.val).kind = "raise"
         THEN [posts |-> 1, print |-> "Traceback: JSONDecodeError", raised |-> TRUE]
         ELSE [posts |-> 1, print |-> "Read Response", raised |-> FALSE]

read_node(net) == RestCall(net, "Read Response", "Read node failed")

write_node(net) == RestCall(net, "Write Response", "Write node failed")

-----------------------------------------------------------------------------
(* Subscription Client callbacks *)

SubscribeOnly == PyDict([action |-> Str("subscribe")])
SubscribeTo(ids) == PyDict([action |-> Str("subscribe"), node_ids |-> ids])

\* number of times a load_tags_from_json call opens and reads the file
FileReadsOf(file) == IF file.exists THEN 1 ELSE 0

\* an on_open that follows its own log line and does not subscribe without tags
on_open_skip_empty(file) ==
    LET r == load_tags_from_json(file) IN
    IF r.kind = "raise"
    THEN [load |-> r, reads |-> FileReadsOf(file), sends |-> << >>,
          print |-> "Traceback: JSONDecodeError", raised |-> TRUE]
    ELSE IF ~Truthy(r.val)
         THEN [load |-> r, reads |-> FileReadsOf(file), sends |-> << >>,
               print |-> "No tags loaded from json, not subscribing.",
               raised |-> FALSE]
         ELSE [load |-> r, reads |-> FileReadsOf(file),
               sends |-> <<json_dumps(SubscribeTo(r.val))>>,
               print |-> "Subscribing to N tags from json file.",
               raised |-> FALSE]

\* an on_open that always passes the loaded list on
on_open_always_ids(file) ==
    LET r == load_tags_from_json(file) IN
    IF r.kind = "raise"
    THEN [load |-> r, reads |-> FileReadsOf(file), sends |-> << >>,
          print |-> "Traceback: JSONDecodeError", raised |-> TRUE]
    ELSE [load |-> r, reads |-> FileReadsOf(file),
          sends |-> <<json_dumps(SubscribeTo(r.val))>>,
               print |-> "Subscribing to N tags from json file.",
               raised |-> FALSE]

\* an on_open that loads the tags on the first open only and reuses them
on_open_cached(file) ==
    LET first == node_ids = NotLoaded
        r == IF first THEN load_tags_from_json(file) ELSE node_ids
        n == IF first THEN FileReadsOf(file) ELSE 0
    IN
    IF r.kind = "raise"
    THEN [load |-> r, reads |-> n, sends |-> << >>,
          print |-> "Traceback: JSONDecodeError", raised |-> TRUE]
    ELSE IF ~Truthy(r.val)
         THEN [load |-> r, reads |-> n,
               sends |-> <<json_dumps(SubscribeOnly)>>,
               print |-> "No tags loaded from json, not subscribing.",
               raised |-> FALSE]
         ELSE [load |-> r, reads |-> n,
               sends |-> <<json_dumps(SubscribeTo(r.val))>>,
               print |-> "Subscribing to N tags from json file.",
               raised |-> FALSE]

on_open(file) ==
    LET r == load_tags_from_json(file) IN
    IF r.kind = "raise"
    THEN [load |-> r, reads |-> FileReadsOf(file), sends |-> << >>,
          print |-> "Traceback: JSONDecodeError", raised |-> TRUE]
    ELSE IF ~Truthy(r.val)
         THEN [load |-> r, reads |-> FileReadsOf(file),
               sends |-> <<json_dumps(SubscribeOnly)>>,
               print |-> "No tags loaded from json, not subscribing.",
               raised |-> FALSE]
         ELSE [load |-> r, reads |-> FileReadsOf(file),
               sends |-> <<json_dumps(SubscribeTo(r.val))>>,
               print |-> "Subscribing to N tags from json file.",
               raised |-> FALSE]

on_message(message) ==
    IF json_loads(message).kind = "raise"
    THEN [print |-> "Traceback: JSONDecodeError", raised |-> TRUE]
    ELSE [print |-> "WebSocket Message", raised |-> FALSE]

on_error == "WebSocket Error"

on_close == "WebSocket Closed"

\* inbound text frames
InboundFrames == { Garbage, json_dumps(PyDict([value |-> Num(1)])) }

-----------------------------------------------------------------------------
(* Initial state: the interpreter is about to run the __main__ block *)

Init ==
    /\ tagFile \in DemoFiles
    /\ node_ids = NotLoaded
    /\ mainPc = "read"
    /\ posts = 0
    /\ stdout = "--- REST API Demo ---"
    /\ workerPc = "idle"
    /\ elapsed = 0
    /\ sent = << >>
    /\ opens = 0
    /\ fileReads = 0
    /\ failures = 0
    /\ frames = << >>
    /\ process = "running"

-----------------------------------------------------------------------------
(* Main thread *)

\* read_node("ns=1;i=43920")
ReadNode ==
    /\ process = "running" /\ mainPc = "read"
    /\ \E net \in NetOutcomes :
         LET r == read_node(net) IN
         /\ posts' = posts + r.posts
         /\ stdout' = r.print
         /\ mainPc' = IF r.raised THEN "traceback" ELSE "start"
         /\ process' = IF r.raised THEN "terminated" ELSE process
    /\ UNCHANGED <<tagFile, node_ids, workerPc, elapsed, sent, opens, fileReads,
                   failures, frames>>

\* a worker thread left as an ordinary (non-daemon) thread
ws_thread_nondaemon == FALSE

\* ws_thread.daemon = True
ws_thread_daemon == TRUE

\* ws_thread = Thread(target=run_websocket); daemon = True; start()
StartThread ==
    /\ process = "running" /\ mainPc = "start"
    /\ workerPc' = "create"
    /\ mainPc' = "press"
    /\ stdout' = "--- WebSocket Demo ---"
    /\ UNCHANGED <<tagFile, node_ids, posts, elapsed, sent, opens, fileReads,
                   failures, frames, process>>

\* print("Press Ctrl+C to exit."), then enter the try block's sleep loop
EnterLoop ==
    /\ process = "running" /\ mainPc = "press"
    /\ mainPc' = "loop"
    /\ stdout' = "Press Ctrl+C to exit."
    /\ UNCHANGED <<tagFile, node_ids, posts, workerPc, elapsed, sent, opens,
                   fileReads, failures, frames, process>>

\* what is left of the process once the main thread has ended: the
\* interpreter waits for the threads that are not daemons
AfterMain == IF workerPc = "idle" \/ ws_thread_daemon THEN "terminated" ELSE "hung"

\* KeyboardInterrupt raised in time.sleep(1), inside the try block
Interrupt ==
    /\ process = "running" /\ mainPc = "loop"
    /\ mainPc' = "exited"
    /\ stdout' = "Exiting..."
    /\ process' = AfterMain
    /\ UNCHANGED <<tagFile, node_ids, posts, workerPc, elapsed, sent, opens,
                   fileReads, failures, frames>>

\* KeyboardInterrupt raised outside the try block: nothing catches it
InterruptOutsideTry ==
    /\ process = "running" /\ mainPc \in {"read", "start", "press"}
    /\ mainPc' = "traceback"
    /\ stdout' = "Traceback: KeyboardInterrupt"
    /\ process' = AfterMain
    /\ UNCHANGED <<tagFile, node_ids, posts, workerPc, elapsed, sent, opens,
                   fileReads, failures, frames>>

-----------------------------------------------------------------------------
(* Worker thread: run_websocket *)

Min(a, b) == IF a < b THEN a ELSE b

\* ws = WebSocketApp(...); print("Starting WebSocket connection..."); run_forever()
CreateApp ==
    /\ process = "running" /\ workerPc = "create"
    /\ sent' = << >>
    /\ frames' = << >>
    /\ stdout' = "Starting WebSocket connection..."
    /\ workerPc' = "connecting"
    /\ UNCHANGED <<tagFile, node_ids, mainPc, posts, elapsed, opens, fileReads,
                   failures, process>>

\* a dispatch that lets a callback's exception end run_forever
CallbackRaisedEndsRun == "sleep"

\* run_forever reports an exception raised by a callback through on_error
\* and goes on reading
CallbackRaised == "connected"

\* the connection is established and run_forever calls on_open
Open ==
    /\ process = "running" /\ workerPc = "connecting"
    /\ opens < MaxOpens
    /\ LET r == on_open(tagFile) IN
       /\ node_ids' = r.load
       /\ fileReads' = fileReads + r.reads
       /\ sent' = sent \o r.sends
       /\ workerPc' = IF r.raised THEN CallbackRaised ELSE "connected"
       /\ stdout' = IF r.raised THEN on_error ELSE r.print
    /\ opens' = opens + 1
    /\ failures' = 0
    /\ UNCHANGED <<tagFile, mainPc, posts, elapsed, frames, process>>

\* the time.sleep(5) of the reconnect loop has run its time
SleepDoneAtOnce(t) == TRUE

SleepDone(t) == t >= RECONNECT_DELAY

\* run_forever returns; print("WebSocket closed. Reconnecting ..."); sleep starts
Returned(failed) ==
    /\ workerPc' = "sleep"
    /\ elapsed' = 0
    /\ failures' = IF failed THEN Min(failures + 1, MaxFailures) ELSE failures
    /\ stdout' = "WebSocket closed. Reconnecting in 5 seconds..."

\* the connect attempt fails: on_error is called and run_forever returns
ConnectFail ==
    /\ process = "running" /\ workerPc = "connecting"
    /\ Returned(TRUE)
    /\ UNCHANGED <<tagFile, node_ids, mainPc, posts, sent, opens, fileReads,
                   frames, process>>

\* an inbound text frame: run_forever calls on_message
Frame ==
    /\ process = "running" /\ workerPc = "connected"
    /\ Len(frames) < MaxFrames
    /\ \E message \in InboundFrames :
         LET r == on_message(message) IN
         /\ frames' = Append(frames, message)
         /\ IF r.raised /\ CallbackRaised # "connected"
            THEN Returned(TRUE)
            ELSE /\ stdout' = IF r.raised THEN on_error ELSE r.print
                 /\ UNCHANGED <<workerPc, elapsed, failures>>
    /\ UNCHANGED <<tagFile, node_ids, mainPc, posts, sent, opens, fileReads,
                   process>>

\* the connection ends, by a close frame or a transport error: on_error
\* (for an error) and on_close are called, and run_forever returns
Close ==
    /\ process = "running" /\ workerPc = "connected"
    /\ Returned(TRUE)
    /\ UNCHANGED <<tagFile, node_ids, mainPc, posts, sent, opens, fileReads,
                   frames, process>>

\* one time unit of time.sleep(5) passes
Tick ==
    /\ process = "running" /\ workerPc = "sleep"
    /\ elapsed < RECONNECT_DELAY
    /\ elapsed' = elapsed + 1
    /\ UNCHANGED <<tagFile, node_ids, mainPc, posts, stdout, workerPc, sent, opens,
                   fileReads, failures, frames, process>>

\* time.sleep(5) returns and the while loop starts over
Wake ==
    /\ process = "running" /\ workerPc = "sleep"
    /\ SleepDone(elapsed)
    /\ workerPc' = "create"
    /\ UNCHANGED <<tagFile, node_ids, mainPc, posts, stdout, elapsed, sent, opens,
                   fileReads, failures, frames, process>>

-----------------------------------------------------------------------------
(* Environment *)

\* somebody rewrites, removes or creates the tag file
EditTagFile ==
    /\ process = "running"
    /\ tagFile' \in DemoFiles \ {tagFile}
    /\ UNCHANGED <<node_ids, mainPc, posts, stdout, workerPc, elapsed, sent, opens,
                   fileReads, failures, frames, process>>

Next ==
    \/ ReadNode
    \/ StartThread
    \/ EnterLoop
    \/ Interrupt
    \/ InterruptOutsideTry
    \/ CreateApp
    \/ Open
    \/ ConnectFail
    \/ Frame
    \/ Close
    \/ Tick
    \/ Wake
    \/ EditTagFile

Spec == Init /\ [][Next]_vars

\* the worker thread is scheduled and time passes while the process runs
LiveSpec == Spec /\ WF_vars(CreateApp) /\ WF_vars(Tick) /\ WF_vars(Wake)

-----------------------------------------------------------------------------
(* The Tag Loader on its own: one call on any of the tag files *)

LoaderInit ==
    /\ tagFile \in LoaderFiles
    /\ node_ids = NotLoaded
    /\ mainPc = "read"
    /\ posts = 0
    /\ stdout = ""
    /\ workerPc = "idle"
    /\ elapsed = 0
    /\ sent = << >>
    /\ opens = 0
    /\ fileReads = 0
    /\ failures = 0
    /\ frames = << >>
    /\ process = "running"

LoadCall ==
    /\ node_ids = NotLoaded
    /\ node_ids' = load_tags_from_json(tagFile)
    /\ fileReads' = fileReads + FileReadsOf(tagFile)
    /\ UNCHANGED <<tagFile, mainPc, posts, stdout, workerPc, elapsed, sent, opens,
                   failures, frames, process>>

LoaderNext == LoadCall

LoaderSpec == LoaderInit /\ [][LoaderNext]_vars

-----------------------------------------------------------------------------
(* Properties of the Tag Loader, checked under LoaderSpec *)

RECURSIVE PreOrder(_)
RECURSIVE PreOrderSeq(_)

\* the nodeId values of the variable-class descriptors of a sequence of
\* values, each value before the next
PreOrderSeq(xs) ==
    IF xs = << >> THEN << >> ELSE PreOrder(Head(xs)) \o PreOrderSeq(Tail(xs))

\* the nodeId values of the variable-class descriptors of a value, a
\* descriptor before its children
PreOrder(j) ==
    IF j.t = "list" THEN PreOrderSeq(j.v)
    ELSE IF j.t = "dict"
    THEN (IF "nodeClass" \in DOMAIN j.v /\ "nodeId" \in DOMAIN j.v
             /\ j.v["nodeClass"] = Str("NodeClassVariable")
          THEN <<j.v["nodeId"]>> ELSE << >>)
         \o (IF "children" \in DOMAIN j.v /\ j.v["children"].t = "list"
             THEN PreOrderSeq(j.v["children"].v) ELSE << >>)
    ELSE << >>

RECURSIVE IsDescriptor(_)
\* a NodeDescriptor: nodeClass, nodeId and optional children, nothing else
IsDescriptor(j) ==
    /\ j.t = "dict"
    /\ {"nodeClass", "nodeId"} \subseteq DOMAIN j.v
    /\ DOMAIN j.v \subseteq {"nodeClass", "nodeId", "children"}
    /\ "children" \in DOMAIN j.v =>
         /\ j.v["children"].t = "list"
         /\ \A i \in 1..Len(j.v["children"].v) : IsDescriptor(j.v["children"].v[i])

\* a tag tree: one descriptor, or a non-empty sequence of descriptors
IsTreeInput(j) ==
    \/ IsDescriptor(j)
    \/ j.t = "list" /\ Len(j.v) > 0 /\ \A i \in 1..Len(j.v) : IsDescriptor(j.v[i])

Loaded == node_ids # NotLoaded
Parses == tagFile.exists /\ tagFile.content.wf
Data == tagFile.content.j

\* C1: for every tag tree (a descriptor or a sequence of descriptors, any
\* nesting) the loader returns exactly the nodeId values of the
\* variable-class descriptors in depth-first pre-order, the empty sequence
\* when there is none.
C1_PreOrderOfVariables ==
    (Loaded /\ Parses /\ IsTreeInput(Data)) =>
        node_ids = Return(PyList(PreOrder(Data)))

\* C5: for a mapping without variable-class descriptors (whose `tags` and
\* `node_ids`, where present, hold sequences) the loader returns
\* the value under `tags` whenever that key is present, whatever the value,
\* otherwise the value under `node_ids` if present, otherwise the empty
\* sequence.
C5_TagsWheneverPresent ==
    (Loaded /\ Parses /\ Data.t = "dict" /\ PreOrder(Data) = << >>
       /\ \A k \in {"tags", "node_ids"} \cap DOMAIN Data.v : Data.v[k].t = "list") =>
        node_ids = Return(IF "tags" \in DOMAIN Data.v THEN Data.v["tags"]
                          ELSE IF "node_ids" \in DOMAIN Data.v
                               THEN Data.v["node_ids"]
                               ELSE EmptyList)

\* C6: for a missing file the loader returns the empty sequence and does
\* not raise; for a file holding malformed JSON it raises the parse error
\* and returns nothing.
C6_MissingVsMalformed ==
    Loaded =>
        /\ ~tagFile.exists => node_ids = Return(EmptyList)
        /\ (tagFile.exists /\ ~tagFile.content.wf) =>
               node_ids = Raise("JSONDecodeError")

C6_Witness == tagFile = MalformedFile /\ node_ids.kind = "raise"

-----------------------------------------------------------------------------
(* Properties of the running client, checked under Spec and LiveSpec *)

OpenStep == opens' = opens + 1

C4_ReconnectLoop ==
    /\ [][(workerPc = "sleep" /\ workerPc' # "sleep") =>
            (elapsed >= 5 /\ workerPc' = "create")]_vars
    /\ [](workerPc \in {"create", "connecting"} /\ (opens > 0 \/ failures > 0)
            => elapsed = 5)
    /\ (workerPc = "sleep") ~> (workerPc = "connecting" \/ process # "running")
    /\ [][process' # process => mainPc' \in {"exited", "traceback"}]_vars

C4_Witness == failures >= 3 /\ workerPc = "connecting" /\ elapsed = 5

C8_RestCallReturns ==
    /\ [][posts' # posts =>
            /\ posts' = posts + 1
            /\ mainPc' = "start" /\ process' = "running"
            /\ stdout' \in {"Read Response", "Read node failed"}]_vars
    /\ [](workerPc # "idle" => posts = 1)
    /\ [](\A net \in NetOutcomes :
            write_node(net).posts = 1 /\ ~write_node(net).raised)

C8_Witness == mainPc = "press" /\ workerPc = "create" /\ posts = 1

\* C9 as stated: once the worker thread has been started, an interrupt
\* ends the process cleanly, through the farewell of the main loop.
C9_InterruptAlwaysClean ==
    (workerPc # "idle" /\ process # "running") =>
        (process = "terminated" /\ mainPc = "exited" /\ stdout = "Exiting...")

\* C9 as amended: once the main thread is in its sleep loop an interrupt
\* is taken in every state of the worker and ends the process cleanly,
\* without waiting for the worker; an interrupt before the loop is entered
\* also ends the process, by the uncaught KeyboardInterrupt.
C9_InterruptInLoopClean ==
    /\ (mainPc = "loop" /\ process = "running") => ENABLED Interrupt
    /\ mainPc = "exited" => (process = "terminated" /\ stdout = "Exiting...")
    /\ mainPc = "traceback" => process = "terminated"
    /\ process = "running" => mainPc \notin {"exited", "traceback"}

C9_Witness ==
    mainPc = "exited" /\ process = "terminated" /\ workerPc = "connected"

\* C10 as stated: the tag file is read at most once over a run.
C10_ReadAtMostOnce == fileReads <= 1

\* C10 as amended: the tag file is read on every successful open at which
\* it exists and at no other time, and the identifiers are derived anew
\* from the file as it is at each open.
C10_ReadOnEveryOpen ==
    /\ [][fileReads' = fileReads + (IF OpenStep /\ tagFile.exists THEN 1 ELSE 0)]_vars
    /\ [][OpenStep => node_ids' = load_tags_from_json(tagFile)]_vars

C10_Witness == opens = 2 /\ fileReads = 2

=============================================================================
